---- MODULE Spec2Model ----
(***************************************************************************)
(* LocalFinServer, local_fin_server.py (pipeline "V17"): the per-ticker    *)
(* loop of run_v17 over a sqlite table, the two statement sources          *)
(* (fetch_data_stockanalysis, fetch_data_yfinance_backup), the earnings    *)
(* calendar, the price lookup and the announce-date / share / market-cap   *)
(* resolution that run_v17 does inline.                                    *)
(*                                                                         *)
(* Python values are modelled as follows.                                  *)
(*   float / None : a record [k, v], k in {"none","nan","num","bad"};      *)
(*                  "bad" is a value float() rejects.                      *)
(*   'YYYY-MM-DD' : a triple <<y, m, d>>; <<0,0,0>> is a missing date.     *)
(*   datetime     : the proleptic Gregorian ordinal of its day; every      *)
(*                  datetime the code builds from a string is a midnight,  *)
(*                  so d > datetime.now() iff ordinal(d) > ordinal(today). *)
(*   dict         : a sequence of <<key, value>> pairs in insertion order. *)
(***************************************************************************)
EXTENDS Integers, Sequences, FiniteSets, TLC

VARIABLES
    now,                    \* ordinal of today, as datetime.now() sees it
    disk,                   \* committed rows of historical_financials (the db file)
    table,                  \* rows the open connection sees (committed + own inserts)
    pc,                     \* position of run_v17
    ti,                     \* index into targets of the ticker being processed
    known_announce_dates,   \* run_v17 local
    fin_data,               \* run_v17 local (sorted)
    idx,                    \* position of "for item in fin_data"
    valid_count,            \* run_v17 local
    world,                  \* what the external services answer, per ticker
    runs,                   \* completed runs of run_v17
    ticks,                  \* midnights passed since the start
    arg,                    \* input of a function applied on its own
    res                     \* its result

vars == <<now, disk, table, pc, ti, known_announce_dates, fin_data, idx,
          valid_count, world, runs, ticks, arg, res>>

-----------------------------------------------------------------------------
(* Python floats and None *)

None == [k |-> "none", v |-> 0]
NaN == [k |-> "nan", v |-> 0]
Bad == [k |-> "bad", v |-> 0]
Num(n) == [k |-> "num", v |-> n]

\* bool(x) of None or a float: None and 0.0 are false, NaN is true
Truthy(x) == x.k = "nan" \/ (x.k = "num" /\ x.v # 0)

\* float(val): raises on a non-numeric value
FloatOk(x) == x.k \in {"nan", "num"}

\* price * shares on floats (both operands not None)
Mul(a, b) == IF a.k = "num" /\ b.k = "num" THEN Num(a.v * b.v) ELSE NaN

Billion == 1000000000

\* mkt_cap / 1e9
DivBillion(x) == IF x.k = "num" THEN Num(x.v \div Billion) ELSE NaN

-----------------------------------------------------------------------------
(* datetime: strptime('%Y-%m-%d'), strftime('%Y-%m-%d'), timedelta(days) *)

Years == 2022..2026

NoDate == <<0, 0, 0>>

IsLeap(y) == (y % 4 = 0) /\ ((y % 100 # 0) \/ (y % 400 = 0))

DaysInMonth(y, m) ==
    IF m = 2 THEN (IF IsLeap(y) THEN 29 ELSE 28)
    ELSE IF m \in {4, 6, 9, 11} THEN 30 ELSE 31

DaysBeforeYear(y) ==
    (y - 1) * 365 + ((y - 1) \div 4) - ((y - 1) \div 100) + ((y - 1) \div 400)

RECURSIVE DaysBeforeMonth(_, _)
DaysBeforeMonth(y, m) ==
    IF m = 1 THEN 0 ELSE DaysBeforeMonth(y, m - 1) + DaysInMonth(y, m - 1)

\* strptime accepts the string
ValidDate(s) ==
    /\ s[1] \in 1..9999
    /\ s[2] \in 1..12
    /\ s[3] \in 1..DaysInMonth(s[1], s[2])

\* datetime.strptime(s, '%Y-%m-%d'), as the ordinal of the day
strptime(s) == DaysBeforeYear(s[1]) + DaysBeforeMonth(s[1], s[2]) + s[3]

\* dt.strftime('%Y-%m-%d')
strftime(n) ==
    LET y == CHOOSE yy \in Years :
                 DaysBeforeYear(yy) < n /\ n <= DaysBeforeYear(yy + 1)
        r == n - DaysBeforeYear(y)
        m == CHOOSE mm \in 1..12 :
                 /\ DaysBeforeMonth(y, mm) < r
                 /\ r <= DaysBeforeMonth(y, mm) + DaysInMonth(y, mm)
    IN  <<y, m, r - DaysBeforeMonth(y, m)>>

\* s1 < s2 on zero-padded date strings (the order list.sort compares by)
StrLess(s1, s2) ==
    \/ s1[1] < s2[1]
    \/ s1[1] = s2[1] /\ s1[2] < s2[2]
    \/ s1[1] = s2[1] /\ s1[2] = s2[2] /\ s1[3] < s2[3]

-----------------------------------------------------------------------------
(* dict *)

RECURSIVE DictGet(_, _, _)
\* d.get(key, default)
DictGet(d, key, default) ==
    IF d = <<>> THEN default
    ELSE IF Head(d)[1] = key THEN Head(d)[2]
    ELSE DictGet(Tail(d), key, default)

HasKey(d, key) == \E i \in 1..Len(d) : d[i][1] = key

\* d[key] = val
DictSet(d, key, val) ==
    IF HasKey(d, key)
    THEN [i \in 1..Len(d) |-> IF d[i][1] = key THEN <<key, val>> ELSE d[i]]
    ELSE Append(d, <<key, val>>)

-----------------------------------------------------------------------------
(* fetch_data_stockanalysis *)

\* SA_MAP.items(), in the order the dict literal gives
SA_MAP == <<
    <<"Revenue", "Total Revenue">>, <<"revenue", "Total Revenue">>,
    <<"Net Income", "Net Income">>, <<"netIncome", "Net Income">>,
    <<"Gross Profit", "Gross Profit">>, <<"grossProfit", "Gross Profit">>,
    <<"Operating Income", "Operating Income">>, <<"opIncome", "Operating Income">>,
    <<"EBITDA", "EBITDA">>, <<"ebitda", "EBITDA">>,
    <<"Shares Outstanding (Basic)", "Ordinary Shares Number">>,
    <<"shares", "Ordinary Shares Number">>,
    <<"EPS (Basic)", "Basic EPS">>, <<"eps", "Basic EPS">> >>

RECURSIVE MapFields(_, _, _)
\* for sa_k, std_k in SA_MAP.items(): val = item.get(sa_k); if val is not None:
\*     try: final_data[std_k] = float(val)  except: pass
MapFields(item, i, final_data) ==
    IF i > Len(SA_MAP) THEN final_data
    ELSE LET val == DictGet(item.fields, SA_MAP[i][1], None)
         IN  MapFields(item, i + 1,
                       IF val.k # "none" /\ FloatOk(val)
                       THEN DictSet(final_data, SA_MAP[i][2], val)
                       ELSE final_data)

\* r_date > datetime.now(), r_date a midnight
IsFuture(r_date, today) == r_date > today

\* q_num = (r_date.month - 1) // 3 + 1
QNum(month) == ((month - 1) \div 3) + 1

\* f"Q{q_num}"
QLabel(q_num) == <<"Q1", "Q2", "Q3", "Q4">>[q_num]

\* period_label = "FY" if r_type == 'Annual' else f"Q{q_num}"
PeriodLabel(r_type, month) == IF r_type = "Annual" THEN "FY" ELSE QLabel(QNum(month))

\* the dict appended to processed_data for one item of core_data
SAProcessed(item, r_type) ==
    LET final_data == MapFields(item, 1, <<>>)
    IN  [report_period |-> item.date,
         report_type   |-> r_type,
         period_label  |-> PeriodLabel(r_type, item.date[2]),
         shares        |-> DictGet(final_data, "Ordinary Shares Number", Num(0)),
         data          |-> final_data]

RECURSIVE SAItems(_, _, _, _, _)
\* "for item in core_data": an item with no date is skipped, a date strptime
\* rejects raises into the outer "except Exception: continue" (the rest of this
\* page is lost, what was appended stays), a future date is skipped
SAItems(core_data, i, r_type, today, processed_data) ==
    IF i > Len(core_data) THEN processed_data
    ELSE LET item == core_data[i]
         IN  IF item.date = NoDate
             THEN SAItems(core_data, i + 1, r_type, today, processed_data)
             ELSE IF ~ValidDate(item.date) THEN processed_data
             ELSE IF IsFuture(strptime(item.date), today)
             THEN SAItems(core_data, i + 1, r_type, today, processed_data)
             ELSE SAItems(core_data, i + 1, r_type, today,
                          Append(processed_data, SAProcessed(item, r_type)))

\* urls = [(base_url, "Annual"), (base_url + "?p=quarterly", "Quarterly")]
SA_TYPES == <<"Annual", "Quarterly">>

\* pages[i] is what the i-th url answers: ok = FALSE stands for every way the
\* page yields nothing (request raises, status != 200, no __NEXT_DATA__, no
\* data path)
fetch_data_stockanalysis(pages, today) ==
    LET afterAnnual ==
            IF pages[1].ok
            THEN SAItems(pages[1].core_data, 1, SA_TYPES[1], today, <<>>)
            ELSE <<>>
    IN  IF pages[2].ok
        THEN SAItems(pages[2].core_data, 1, SA_TYPES[2], today, afterAnnual)
        ELSE afterAnnual

-----------------------------------------------------------------------------
(* fetch_data_yfinance_backup *)
(* A DataFrame (already transposed: one row per period end) is a record    *)
(* [cols, index, vals]: column names, row labels (pandas Timestamps        *)
(* [ord, tz]) and vals[i][j] the cell of row i, column j.  Row labels are  *)
(* unique within a frame, as the statement frames of yfinance are.         *)

\* pd.DataFrame()
EmptyFrame == [cols |-> <<>>, index |-> <<>>, vals |-> <<>>]

\* df.empty
IsEmpty(df) == Len(df.cols) = 0 \/ Len(df.index) = 0

ColNames(df) == {df.cols[j] : j \in 1..Len(df.cols)}

Renamed(cols, overlap, suffix) ==
    [j \in 1..Len(cols) |-> IF cols[j] \in overlap THEN cols[j] \o suffix ELSE cols[j]]

\* left.join(right, lsuffix=.., rsuffix=..): a left join on the row labels; a
\* column name both frames have gets each side's suffix; a left row with no
\* right row gets NaN in the right's columns
Join(left, right, lsuffix, rsuffix) ==
    LET overlap == ColNames(left) \cap ColNames(right)
        match(i) == {k \in 1..Len(right.index) : right.index[k] = left.index[i]}
        rightRow(i) ==
            IF match(i) = {}
            THEN [j \in 1..Len(right.cols) |-> NaN]
            ELSE right.vals[CHOOSE k \in match(i) : \A k2 \in match(i) : k <= k2]
    IN  [cols  |-> Renamed(left.cols, overlap, lsuffix)
                   \o Renamed(right.cols, overlap, rsuffix),
         index |-> left.index,
         vals  |-> [i \in 1..Len(left.index) |-> left.vals[i] \o rightRow(i)]]

RECURSIVE KeepCols(_, _)
KeepCols(seq, keep) ==
    IF keep = {} THEN <<>>
    ELSE LET j == CHOOSE x \in keep : \A y \in keep : x <= y
         IN  <<seq[j]>> \o KeepCols(seq, keep \ {j})

\* full.loc[:, ~full.columns.duplicated()]: of columns with one name, the first stays
DropDuplicated(full) ==
    LET keep == {j \in 1..Len(full.cols) :
                    \A j2 \in 1..(j - 1) : full.cols[j2] # full.cols[j]}
    IN  [cols  |-> KeepCols(full.cols, keep),
         index |-> full.index,
         vals  |-> [i \in 1..Len(full.index) |-> KeepCols(full.vals[i], keep)]]

\* full = inc.join(bal, lsuffix='_i', rsuffix='_b').join(cf, rsuffix='_c')
\* full = full.loc[:, ~full.columns.duplicated()]
MergeFrames(inc, bal, cf) ==
    DropDuplicated(Join(Join(inc, bal, "_i", "_b"), cf, "", "_c"))

\* row.to_dict()
RowToDict(full, i) == [j \in 1..Len(full.cols) |-> <<full.cols[j], full.vals[i][j]>>]

\* r_date = date_idx.tz_localize(None) if ... date_idx.tz else date_idx
TzNaive(date_idx) == [date_idx EXCEPT !.tz = FALSE]

\* shares = final_data.get('Ordinary Shares Number', 0)
\* if not shares: shares = final_data.get('Share Issued', 0)
StatementShares(final_data) ==
    LET primary == DictGet(final_data, "Ordinary Shares Number", Num(0))
    IN  IF ~Truthy(primary) THEN DictGet(final_data, "Share Issued", Num(0))
        ELSE primary

RECURSIVE YFRows(_, _, _, _, _, _)
\* "for date_idx, row in full.iterrows()": [results, raised]; tick.info raising
\* leaves the function through its "except", with what was appended so far
YFRows(full, i, r_type, info, today, results) ==
    IF i > Len(full.index) THEN [results |-> results, raised |-> FALSE]
    ELSE LET r_date == TzNaive(full.index[i])
             final_data == RowToDict(full, i)
             stmt == StatementShares(final_data)
         IN  IF IsFuture(r_date.ord, today)
             THEN YFRows(full, i + 1, r_type, info, today, results)
             ELSE IF ~Truthy(stmt) /\ info.raises
             THEN [results |-> results, raised |-> TRUE]
             ELSE YFRows(full, i + 1, r_type, info, today,
                    Append(results,
                      [report_period |-> strftime(r_date.ord),
                       report_type   |-> r_type,
                       period_label  |-> PeriodLabel(r_type, strftime(r_date.ord)[2]),
                       shares        |-> IF ~Truthy(stmt) THEN info.sharesOutstanding
                                         ELSE stmt,
                       data          |-> final_data]))

\* one entry of tasks: "if inc.empty: continue", else merge and walk the rows
YFTask(inc, bal, cf, r_type, info, today, results) ==
    IF IsEmpty(inc) THEN [results |-> results, raised |-> FALSE]
    ELSE YFRows(MergeFrames(inc, bal, cf), 1, r_type, info, today, results)

\* yf: what yfinance answers for the ticker.  raises: a statement property
\* raises (results is still empty); has_inc / has_bal / has_cf: hasattr finds
\* one of the attribute names
fetch_data_yfinance_backup(yf, info, today) ==
    IF yf.raises \/ ~yf.has_inc THEN <<>>
    ELSE LET bal_a == IF yf.has_bal THEN yf.bal_a ELSE EmptyFrame
             bal_q == IF yf.has_bal THEN yf.bal_q ELSE EmptyFrame
             cf_a == IF yf.has_cf THEN yf.cf_a ELSE EmptyFrame
             cf_q == IF yf.has_cf THEN yf.cf_q ELSE EmptyFrame
             annual == YFTask(yf.inc_a, bal_a, cf_a, "Annual", info, today, <<>>)
         IN  IF annual.raised THEN annual.results
             ELSE YFTask(yf.inc_q, bal_q, cf_q, "Quarterly", info, today,
                         annual.results).results

-----------------------------------------------------------------------------
(* get_earnings_calendar_yf, get_adj_close_price *)

\* cal: [raises, dates]: tick.earnings_dates raising, or the ordinals of its
\* index (None and an empty frame are dates = <<>>)
get_earnings_calendar_yf(cal) ==
    IF cal.raises THEN <<>>
    ELSE [i \in 1..Len(cal.dates) |-> strftime(cal.dates[i])]

PriceWindow == 7

\* hist: [raises, points]: tick.history raising, or its rows [ord, close] in
\* ascending date order; history(start, end) gives the rows in [start, end).
\* Result: <<price, p_date>>, p_date being NoDate when price is None.
get_adj_close_price(hist, target_date_str, today) ==
    IF hist.raises \/ ~ValidDate(target_date_str) THEN <<None, NoDate>>
    ELSE LET target_ts == strptime(target_date_str)
             target_dt == IF target_ts > today THEN today - 1 ELSE target_ts
             start == target_dt - PriceWindow
             end == target_dt + PriceWindow
             rows == {i \in 1..Len(hist.points) :
                         start <= hist.points[i].ord /\ hist.points[i].ord < end}
             past_df == {i \in rows : hist.points[i].ord <= target_ts}
         IN  IF rows = {} THEN <<None, NoDate>>
             ELSE IF past_df # {}
             THEN LET last == CHOOSE i \in past_df : \A i2 \in past_df : i2 <= i
                  IN  <<hist.points[last].close, strftime(hist.points[last].ord)>>
             ELSE <<None, NoDate>>

-----------------------------------------------------------------------------
(* run_v17: the code between the existence check and the INSERT *)

WindowLo == 10
WindowHi == 100
InitMinDiff == 999
EstimateAnnual == 60
EstimateQuarterly == 35

\* the window with its lower edge left out
InWindowMut(diff) == WindowLo < diff /\ diff <= WindowHi
\* 10 <= diff <= 100
InWindow(diff) == WindowLo <= diff /\ diff <= WindowHi

RECURSIVE BestMatch(_, _, _, _, _)
\* "for ad_str in known_announce_dates": best_ann_date (NoDate for None)
BestMatch(dates, i, r_dt, best_ann_date, min_diff) ==
    IF i > Len(dates) THEN best_ann_date
    ELSE LET diff == strptime(dates[i]) - r_dt
         IN  IF InWindow(diff) /\ diff < min_diff
             THEN BestMatch(dates, i + 1, r_dt, dates[i], diff)
             ELSE BestMatch(dates, i + 1, r_dt, best_ann_date, min_diff)

\* the announce date left as resolved
ClampToNowMut(ann_date, today) == ann_date

\* if datetime.strptime(ann_date) > datetime.now(): ann_date = now as a string
ClampToNow(ann_date, today) ==
    IF strptime(ann_date) > today THEN strftime(today) ELSE ann_date

\* lines 294-315: ann_date of an item
AnnounceDate(r_period, report_type, dates, today) ==
    LET r_dt == strptime(r_period)
        best_ann_date == BestMatch(dates, 1, r_dt, NoDate, InitMinDiff)
        days == IF report_type = "Annual" THEN EstimateAnnual ELSE EstimateQuarterly
        ann_date == IF best_ann_date # NoDate THEN best_ann_date
                    ELSE strftime(r_dt + days)
    IN  ClampToNow(ann_date, today)

\* lines 319-323: shares = item['shares']; the snapshot is asked only when the
\* statement count is falsy and there is a price; info raising is swallowed
ResolveShares(item_shares, price, info) ==
    IF ~Truthy(item_shares) /\ Truthy(price)
    THEN (IF info.raises THEN item_shares ELSE info.sharesOutstanding)
    ELSE item_shares

\* json.dumps(item['data'], cls=NpEncoder): a float becomes a number token, NaN
\* the token NaN
JsonDumps(data) ==
    [i \in 1..Len(data) |->
        <<data[i][1],
          IF data[i][2].k = "num" THEN [tok |-> "number", v |-> data[i][2].v]
          ELSE IF data[i][2].k = "nan" THEN [tok |-> "NaN", v |-> 0]
          ELSE [tok |-> "null", v |-> 0]>>]

\* the SELECT comparing its second parameter with the announce_date column
ExistsMut(rows, t, r_period, report_type) ==
    \E i \in 1..Len(rows) :
        /\ rows[i].ticker = t
        /\ rows[i].announce_date = r_period
        /\ rows[i].report_type = report_type
\* SELECT id FROM historical_financials WHERE ticker=? AND report_period=? AND
\* report_type=?  ... fetchone()
Exists(rows, t, r_period, report_type) ==
    \E i \in 1..Len(rows) :
        /\ rows[i].ticker = t
        /\ rows[i].report_period = r_period
        /\ rows[i].report_type = report_type

\* an insert that first clears the ticker's rows
InsertMut(rows, row) ==
    Append(SelectSeq(rows, LAMBDA r : r.ticker # row.ticker), row)

\* INSERT INTO historical_financials (...) VALUES (...)
Insert(rows, row) == Append(rows, row)

\* the row of the INSERT
NewRow(t, item, ann_date, price, shares, today) ==
    [ticker              |-> t,
     announce_date       |-> ann_date,
     report_period       |-> item.report_period,
     period_label        |-> item.period_label,
     report_type         |-> item.report_type,
     adj_close_price     |-> price,
     shares_outstanding  |-> shares,
     market_cap_billions |-> DivBillion(Mul(price, shares)),
     financials_json     |-> JsonDumps(item.data),
     updated_at          |-> strftime(today)]

RECURSIVE InsertSorted(_, _)
\* one element into a list already in descending report_period order, after
\* the elements that compare equal (list.sort is stable, also with reverse)
InsertSorted(sorted, item) ==
    IF sorted = <<>> THEN <<item>>
    ELSE IF StrLess(Head(sorted).report_period, item.report_period)
    THEN <<item>> \o sorted
    ELSE <<Head(sorted)>> \o InsertSorted(Tail(sorted), item)

RECURSIVE SortDesc(_, _)
\* fin_data.sort(key=lambda x: x['report_period'], reverse=True)
SortDesc(list, sorted) ==
    IF list = <<>> THEN sorted
    ELSE SortDesc(Tail(list), InsertSorted(sorted, Head(list)))

-----------------------------------------------------------------------------
(* The external services' answers the pipeline is run against *)

MaxRuns == 2
MaxTicks == 1

\* targets = ['AAPL', 'NVDA', 'MSFT']
targets == <<"AAPL", "NVDA", "MSFT">>

Day0 == strptime(<<2024, 3, 1>>)

P1 == <<2023, 12, 31>>
P2 == <<2024, 1, 31>>
P3 == <<2024, 3, 2>>

Stamp(s) == [ord |-> strptime(s), tz |-> FALSE]

CalRaises == [raises |-> TRUE, dates |-> <<>>]
CalKnown == [raises |-> FALSE,
             dates |-> <<strptime(<<2024, 3, 20>>), strptime(<<2024, 1, 25>>),
                         strptime(<<2024, 1, 5>>)>>]

PageNone == [ok |-> FALSE, core_data |-> <<>>]
PageAnnual ==
    [ok |-> TRUE,
     core_data |-> <<
        [date |-> P3, fields |-> << <<"Revenue", Num(7)>>,
                                    <<"shares", Num(200000000)>> >>] >>]
PageQuarterly ==
    [ok |-> TRUE,
     core_data |-> <<
        [date |-> P1, fields |-> << <<"revenue", Num(3)>>,
                                    <<"Shares Outstanding (Basic)", Num(200000000)>> >>],
        [date |-> P2, fields |-> << <<"revenue", Num(4)>>, <<"eps", Bad>> >>],
        [date |-> P1, fields |-> << <<"revenue", Num(9)>>,
                                    <<"shares", Num(400000000)>> >>] >>]

NoFrames ==
    [raises |-> TRUE, has_inc |-> TRUE, has_bal |-> TRUE, has_cf |-> TRUE,
     inc_a |-> EmptyFrame, bal_a |-> EmptyFrame, cf_a |-> EmptyFrame,
     inc_q |-> EmptyFrame, bal_q |-> EmptyFrame, cf_q |-> EmptyFrame]

\* quarterly statements whose balance sheet lacks the older period
Frames ==
    [raises |-> FALSE, has_inc |-> TRUE, has_bal |-> TRUE, has_cf |-> TRUE,
     inc_a |-> EmptyFrame, bal_a |-> EmptyFrame, cf_a |-> EmptyFrame,
     inc_q |-> [cols |-> <<"Total Revenue", "Net Income">>,
                index |-> <<Stamp(P2), Stamp(P1)>>,
                vals |-> << <<Num(4), Num(2)>>, <<Num(3), Num(1)>> >>],
     bal_q |-> [cols |-> <<"Ordinary Shares Number">>,
                index |-> <<Stamp(P2)>>,
                vals |-> << <<Num(200000000)>> >>],
     cf_q |-> [cols |-> <<"Net Income">>,
               index |-> <<Stamp(P2), Stamp(P1)>>,
               vals |-> << <<Num(6)>>, <<Num(5)>> >>]]

Scraped == [pages |-> <<PageAnnual, PageQuarterly>>, yf |-> NoFrames]
Backup == [pages |-> <<PageNone, PageNone>>, yf |-> Frames]

Closes(c) ==
    [raises |-> FALSE,
     points |-> <<[ord |-> strptime(<<2024, 1, 24>>), close |-> c],
                  [ord |-> strptime(<<2024, 2, 2>>), close |-> c],
                  [ord |-> strptime(<<2024, 2, 29>>), close |-> c]>>]
HistRaises == [raises |-> TRUE, points |-> <<>>]

Snapshot == [raises |-> FALSE, sharesOutstanding |-> Num(400000000)]
InfoRaises == [raises |-> TRUE, sharesOutstanding |-> None]

MarketOpen == [hist |-> Closes(Num(5)), info |-> Snapshot]
NoSnapshot == [hist |-> Closes(Num(5)), info |-> InfoRaises]
NoPrices == [hist |-> HistRaises, info |-> Snapshot]

\* share_history is the historical share series of the ticker; nothing in
\* local_fin_server.py asks for it
World(c, st, m) ==
    [cal |-> c, pages |-> st.pages, yf |-> st.yf, hist |-> m.hist, info |-> m.info,
     share_history |-> <<[ord |-> strptime(<<2024, 2, 1>>),
                          shares |-> Num(600000000)]>>]

\* every service answering, for either statement source; the calendar
\* failing, for either statement source; the snapshot failing for a scraped
\* ticker; the price history failing for a ticker served by the backup
Worlds ==
    { World(c, st, MarketOpen) : c \in {CalKnown, CalRaises}, st \in {Scraped, Backup} }
    \cup { World(CalKnown, Scraped, NoSnapshot), World(CalKnown, Backup, NoPrices) }

RECURSIVE Listed(_)
Listed(S) == IF S = {} THEN <<>>
             ELSE LET x == CHOOSE y \in S : TRUE IN <<x>> \o Listed(S \ {x})

\* the state holds, per ticker, the number of its world in this list
WorldList == Listed(Worlds)

-----------------------------------------------------------------------------
(* run_v17 *)

NoInput == [fn |-> "none"]

Init ==
    /\ now = Day0
    /\ disk = <<>>
    /\ table = <<>>
    /\ pc = "idle"
    /\ ti = 1
    /\ known_announce_dates = <<>>
    /\ fin_data = <<>>
    /\ idx = 1
    /\ valid_count = 0
    /\ world = <<>>
    /\ runs = 0
    /\ ticks = 0
    /\ arg = NoInput
    /\ res = <<>>

\* init_database() and sqlite3.connect: os.remove of the old file succeeds, or
\* fails and is passed over ("except: pass"), leaving the old table in place
RunStart ==
    /\ pc = "idle"
    /\ runs < MaxRuns
    /\ \E removed \in BOOLEAN :
          /\ disk' = IF removed THEN <<>> ELSE disk
          /\ table' = disk'
    /\ ti' = 1
    /\ pc' = "ticker"
    /\ UNCHANGED <<now, known_announce_dates, fin_data, idx, valid_count, world,
                   runs, ticks, arg, res>>

\* lines 270-286: the calendar, the statements of the first source that has
\* any, the sort.  A ticker asked a second time gets the answers it got before.
FetchTicker ==
    /\ pc = "ticker"
    /\ \E n \in 1..Len(WorldList) :
          /\ ti <= Len(world) => n = world[ti]
          /\ world' = IF ti <= Len(world) THEN world ELSE Append(world, n)
          /\ known_announce_dates' = get_earnings_calendar_yf(WorldList[n].cal)
          /\ LET w == WorldList[n]
                 scraped == fetch_data_stockanalysis(w.pages, now)
                 got == IF scraped = <<>>
                        THEN fetch_data_yfinance_backup(w.yf, w.info, now)
                        ELSE scraped
             IN  fin_data' = SortDesc(got, <<>>)
    /\ idx' = 1
    /\ valid_count' = 0
    /\ pc' = "item"
    /\ UNCHANGED <<now, disk, table, ti, runs, ticks, arg, res>>

\* lines 287-338: one pass of "for item in fin_data"
ProcessItem ==
    /\ pc = "item"
    /\ idx <= Len(fin_data)
    /\ LET t == targets[ti]
           w == WorldList[world[ti]]
           item == fin_data[idx]
           ann_date == AnnounceDate(item.report_period, item.report_type,
                                    known_announce_dates, now)
           price == get_adj_close_price(w.hist, ann_date, now)[1]
           shares == ResolveShares(item.shares, price, w.info)
       IN  IF Exists(table, t, item.report_period, item.report_type)
           THEN UNCHANGED <<table, valid_count>>
           ELSE IF Truthy(price) /\ Truthy(shares)
           THEN /\ table' = Insert(table, NewRow(t, item, ann_date, price, shares, now))
                /\ valid_count' = valid_count + 1
           ELSE UNCHANGED <<table, valid_count>>
    /\ idx' = idx + 1
    /\ UNCHANGED <<now, disk, pc, ti, known_announce_dates, fin_data, world, runs,
                   ticks, arg, res>>

\* lines 340-341, and the loop over targets going on or ending
EndTicker ==
    /\ pc = "item"
    /\ idx > Len(fin_data)
    /\ IF ti < Len(targets)
       THEN ti' = ti + 1 /\ pc' = "ticker"
       ELSE ti' = ti /\ pc' = "commit"
    /\ UNCHANGED <<now, disk, table, known_announce_dates, fin_data, idx,
                   valid_count, world, runs, ticks, arg, res>>

\* conn.commit(); conn.close()
Commit ==
    /\ pc = "commit"
    /\ disk' = table
    /\ pc' = "idle"
    /\ runs' = runs + 1
    /\ UNCHANGED <<now, table, ti, known_announce_dates, fin_data, idx,
                   valid_count, world, ticks, arg, res>>

\* midnight passes
Tick ==
    /\ ticks < MaxTicks
    /\ now' = now + 1
    /\ ticks' = ticks + 1
    /\ UNCHANGED <<disk, table, pc, ti, known_announce_dates, fin_data, idx,
                   valid_count, world, runs, arg, res>>

Next == RunStart \/ FetchTicker \/ ProcessItem \/ EndTicker \/ Commit \/ Tick

Spec == Init /\ [][Next]_vars

-----------------------------------------------------------------------------
(* Properties of the pipeline *)

SameKey(r1, r2) ==
    /\ r1.ticker = r2.ticker
    /\ r1.report_period = r2.report_period
    /\ r1.report_type = r2.report_type

Unique(rows) ==
    \A i, j \in 1..Len(rows) : SameKey(rows[i], rows[j]) => i = j

TickerIndex(t) == CHOOSE k \in 1..Len(targets) : targets[k] = t

\* C1: whatever was fetched and however many runs were made, neither the table
\* the connection sees nor the committed table holds two rows with the same
\* (ticker, report_period, report_type).
C1_OneRowPerKey == Unique(table) /\ Unique(disk)

\* C1's case: two fetched items of the current ticker share a key and differ
\* otherwise, both have been through the loop, and the key has its row.
C1_Witness ==
    /\ pc = "item"
    /\ \E i, j \in 1..Len(fin_data) :
          /\ i < j /\ j < idx
          /\ fin_data[i].report_period = fin_data[j].report_period
          /\ fin_data[i].report_type = fin_data[j].report_type
          /\ fin_data[i] # fin_data[j]
          /\ Exists(table, targets[ti], fin_data[i].report_period,
                    fin_data[i].report_type)

\* C2: a run that follows a committed run, with the same answers from every
\* service and on the same day, adds no record.
C2_SecondRunEmitsNothing ==
    (runs >= 1 /\ ticks = 0 /\ pc \in {"item", "commit"}) => valid_count = 0

\* C3: every persisted row has a finite price and a finite share count, and a
\* market cap that is their product over 1e9, neither null nor zero nor NaN.
C3_FiniteMarketCap ==
    \A i \in 1..Len(table) :
        LET r == table[i]
        IN  /\ r.adj_close_price.k = "num"
            /\ r.shares_outstanding.k = "num"
            /\ r.market_cap_billions.k = "num"
            /\ r.market_cap_billions.v # 0
            /\ r.market_cap_billions.v * Billion
                   = r.adj_close_price.v * r.shares_outstanding.v

\* the calendar, the price history, or every statement source failed
FetchFailed(w) ==
    \/ w.cal.raises
    \/ w.hist.raises
    \/ (~w.pages[1].ok /\ ~w.pages[2].ok /\ w.yf.raises)

\* C7: no committed row belongs to a ticker one of whose fetches failed.
C7_FailedTickerSkipped ==
    \A i \in 1..Len(disk) : ~FetchFailed(WorldList[world[TickerIndex(disk[i].ticker)]])

\* C9 as stated: while a ticker's items are processed the table the
\* membership check reads does not change.
C9_StoreFrozenDuringTicker == [][pc = "item" => table' = table]_vars

\* C9 amended: during a run the table changes only inside the item loop, by
\* one appended row of the ticker being processed whose key was not in the
\* table; every earlier row stays as it was, so a later membership check of
\* the same ticker sees the rows inserted before it.
C9_StoreGrowsByCurrentTicker ==
    [][(pc # "idle" /\ table' # table) =>
          /\ pc = "item"
          /\ Len(table') = Len(table) + 1
          /\ SubSeq(table', 1, Len(table)) = table
          /\ table'[Len(table')].ticker = targets[ti]
          /\ ~Exists(table, targets[ti], table'[Len(table')].report_period,
                     table'[Len(table')].report_type)]_vars

\* C9's case: a membership check of a ticker runs after a row of the same
\* ticker was inserted in the same pass.
C9_Witness ==
    /\ pc = "item"
    /\ idx <= Len(fin_data)
    /\ valid_count >= 1
    /\ table # disk
    /\ table[Len(table)].ticker = targets[ti]

\* C10: every row has report_period <= announce_date <= the day it was
\* written, which is not after today.
C10_PeriodAnnounceNow ==
    \A i \in 1..Len(table) :
        /\ strptime(table[i].report_period) <= strptime(table[i].announce_date)
        /\ strptime(table[i].announce_date) <= strptime(table[i].updated_at)
        /\ strptime(table[i].updated_at) <= now

\* C10's case: a row whose estimated announce date was in the future and was
\* clamped to the processing day, and a row that was fetched on the day its
\* period ended.
C10_Witness ==
    /\ \E i \in 1..Len(table) :
          /\ table[i].announce_date = table[i].updated_at
          /\ table[i].report_period # table[i].announce_date
    /\ \E i \in 1..Len(table) : table[i].report_period = table[i].updated_at

-----------------------------------------------------------------------------
(* The fetch functions and the announce-date resolution applied on their own *)

MaxDates == 3

RECURSIVE SeqsUpTo(_, _)
\* the sequences over S of length at most n
SeqsUpTo(S, n) ==
    IF n = 0 THEN {<<>>}
    ELSE LET shorter == SeqsUpTo(S, n - 1)
         IN  shorter \cup {Append(q, x) : q \in {r \in shorter : Len(r) = n - 1}, x \in S}

Plus(s, days) == strftime(strptime(s) + days)

PeriodEnd == <<2023, 7, 31>>

\* 2023-08-05 (5 days), 08-09, 08-10, 08-15, 11-01 (93 days), 11-08 (100), 11-09
CandidateDates == {Plus(PeriodEnd, d) : d \in {5, 9, 10, 15, 93, 100, 101}}

AnnounceInputs ==
    { [fn |-> "announce", r_period |-> PeriodEnd, report_type |-> ty,
       dates |-> ds, today |-> strptime(PeriodEnd) + age] :
        ty \in {"Annual", "Quarterly"},
        ds \in SeqsUpTo(CandidateDates, MaxDates),
        age \in {0, 12, 40, 200} }

\* one page of one item, for every month of a year, and pages whose first item
\* has no date or a date strptime rejects
ScrapeInputs ==
    { [fn |-> "scrape", today |-> strptime(<<2025, 12, 31>>),
       pages |-> IF ty = "Annual"
                 THEN <<[ok |-> TRUE, core_data |-> items], PageNone>>
                 ELSE <<PageNone, [ok |-> TRUE, core_data |-> items]>>] :
        ty \in {"Annual", "Quarterly"},
        items \in
          { <<[date |-> <<2025, m, 28>>, fields |-> << <<"Revenue", Num(1)>>,
                                                       <<"revenue", Num(2)>> >>]>> :
               m \in 1..12 }
          \cup { <<[date |-> d, fields |-> <<>>],
                   [date |-> <<2025, 10, 31>>, fields |-> << <<"shares", NaN>> >>]>> :
                    d \in {NoDate, <<2025, 2, 30>>, <<2026, 1, 31>>} } }

\* a frame whose cell (i, j) is base + 10 * i + j, its row labels with or
\* without a time zone
Frame(cols, periods, base, tz) ==
    [cols  |-> cols,
     index |-> [i \in 1..Len(periods) |-> [Stamp(periods[i]) EXCEPT !.tz = tz]],
     vals  |-> [i \in 1..Len(periods) |->
                  [j \in 1..Len(cols) |-> Num(base + 10 * i + j)]]]

BackupInputs ==
    { [fn |-> "backup", today |-> Day0,
       info |-> i,
       yf |-> [raises |-> FALSE, has_inc |-> TRUE, has_bal |-> hb, has_cf |-> TRUE,
               inc_a |-> Frame(<<"Total Revenue">>, <<P1>>, 700, tz),
               bal_a |-> EmptyFrame,
               cf_a  |-> Frame(cc, <<P1>>, 900, tz),
               inc_q |-> Frame(ic, <<P3, P2, P1>>, 100, tz),
               bal_q |-> Frame(bc, bp, 200, tz),
               cf_q  |-> Frame(cc, <<P2, P1>>, 300, tz)]] :
        i \in {Snapshot, InfoRaises},
        hb \in BOOLEAN,
        tz \in BOOLEAN,
        ic \in { <<"Total Revenue", "Net Income">>,
                 <<"Net Income", "EBITDA">>,
                 <<"Ordinary Shares Number", "Net Income">> },
        bc \in { <<"Ordinary Shares Number">>, <<"Share Issued", "Net Income">> },
        bp \in { <<P2, P1>>, <<P2>> },
        cc \in { <<"Net Income">>, <<"Free Cash Flow", "Total Revenue">> } }

InitFn ==
    /\ arg \in AnnounceInputs \cup ScrapeInputs \cup BackupInputs
    /\ now = arg.today
    /\ res = <<>>
    /\ pc = "apply"
    /\ disk = <<>> /\ table = <<>> /\ ti = 1 /\ known_announce_dates = <<>>
    /\ fin_data = <<>> /\ idx = 1 /\ valid_count = 0 /\ world = <<>>
    /\ runs = 0 /\ ticks = 0

Applied(result) ==
    /\ pc = "apply"
    /\ res' = result
    /\ pc' = "applied"
    /\ UNCHANGED <<now, disk, table, ti, known_announce_dates, fin_data, idx,
                   valid_count, world, runs, ticks, arg>>

ApplyAnnounce ==
    /\ arg.fn = "announce"
    /\ Applied(<<AnnounceDate(arg.r_period, arg.report_type, arg.dates, now)>>)

ApplyScrape ==
    /\ arg.fn = "scrape"
    /\ Applied(fetch_data_stockanalysis(arg.pages, now))

ApplyBackup ==
    /\ arg.fn = "backup"
    /\ Applied(fetch_data_yfinance_backup(arg.yf, arg.info, now))

NextFn == ApplyAnnounce \/ ApplyScrape \/ ApplyBackup

SpecFn == InitFn /\ [][NextFn]_vars

-----------------------------------------------------------------------------
(* Properties of the functions *)

\* the fiscal quarter of a month for a fiscal year ending in fy_end_month
FiscalQuarter(month, fy_end_month) ==
    LET m == (month - fy_end_month + 12) % 12
        months_offset == IF m = 0 THEN 12 ELSE m
    IN  ((months_offset - 1) \div 3) + 1

\* C4: the label of a Quarterly record is the fiscal quarter of its period end,
\* whichever month the company's fiscal year ends in, and the label of an
\* Annual record is FY.
C4_FiscalQuarterLabel ==
    (pc = "applied" /\ arg.fn \in {"scrape", "backup"}) =>
        \A i \in 1..Len(res) : \A fy_end_month \in 1..12 :
            res[i].period_label =
                IF res[i].report_type = "Annual" THEN "FY"
                ELSE <<"Q1", "Q2", "Q3", "Q4">>[
                         FiscalQuarter(res[i].report_period[2], fy_end_month)]

Offset(r_period, d) == strptime(d) - strptime(r_period)

\* the dates of the calendar 10 to 100 days after the period end
Qualifying(r_period, dates) ==
    {dates[i] : i \in {k \in 1..Len(dates) :
                          /\ Offset(r_period, dates[k]) >= 10
                          /\ Offset(r_period, dates[k]) <= 100}}

\* C5: the announce date is the qualifying calendar date nearest the period
\* end, else period end + 60 (Annual) or + 35 (Quarterly) days, and in both
\* cases today when that lies after today; it is never after today.
C5_AnnounceDate ==
    (pc = "applied" /\ arg.fn = "announce") =>
        LET q == Qualifying(arg.r_period, arg.dates)
            chosen ==
                IF q # {}
                THEN CHOOSE d \in q :
                        \A e \in q : Offset(arg.r_period, d) <= Offset(arg.r_period, e)
                ELSE Plus(arg.r_period, IF arg.report_type = "Annual" THEN 60 ELSE 35)
        IN  /\ res[1] = IF strptime(chosen) > now THEN strftime(now) ELSE chosen
            /\ strptime(res[1]) <= now

\* C5's case: the calendar lists a date at the lower edge of the window after
\* a later qualifying one and a date below the window, and the date at the
\* edge is the result.
C5_Witness ==
    /\ pc = "applied"
    /\ arg.fn = "announce"
    /\ Len(arg.dates) = 3
    /\ Offset(arg.r_period, arg.dates[1]) = 93
    /\ Offset(arg.r_period, arg.dates[2]) = 9
    /\ Offset(arg.r_period, arg.dates[3]) = 10
    /\ res = <<arg.dates[3]>>

\* the statement frames of a report type, in the order they are merged
FramesOf(yf, report_type) ==
    IF report_type = "Annual"
    THEN <<yf.inc_a, IF yf.has_bal THEN yf.bal_a ELSE EmptyFrame,
           IF yf.has_cf THEN yf.cf_a ELSE EmptyFrame>>
    ELSE <<yf.inc_q, IF yf.has_bal THEN yf.bal_q ELSE EmptyFrame,
           IF yf.has_cf THEN yf.cf_q ELSE EmptyFrame>>

HasCell(frame, period, name) ==
    \E i \in 1..Len(frame.index), j \in 1..Len(frame.cols) :
        frame.index[i].ord = strptime(period) /\ frame.cols[j] = name

Cell(frame, period, name) ==
    LET i == CHOOSE x \in 1..Len(frame.index) : frame.index[x].ord = strptime(period)
        j == CHOOSE y \in 1..Len(frame.cols) : frame.cols[y] = name
    IN  frame.vals[i][j]

\* C8: in the merged mapping of a period, every metric of every frame that
\* has the period is present under its name, with the value of the last
\* frame (income, balance sheet, cash flow) that has it.
C8_LastTableWins ==
    (pc = "applied" /\ arg.fn = "backup") =>
        \A n \in 1..Len(res) :
            LET frames == FramesOf(arg.yf, res[n].report_type)
                period == res[n].report_period
            IN  \A k \in 1..3 : \A name \in ColNames(frames[k]) :
                    HasCell(frames[k], period, name) =>
                        LET last == CHOOSE x \in k..3 :
                                       /\ HasCell(frames[x], period, name)
                                       /\ \A y \in (x + 1)..3 :
                                              ~HasCell(frames[y], period, name)
                        IN  /\ HasKey(res[n].data, name)
                            /\ DictGet(res[n].data, name, None)
                                   = Cell(frames[last], period, name)

\* the statement's own share count is missing or zero
NoStatementShares(json) ==
    \A i \in 1..Len(json) :
        json[i][1] \in {"Ordinary Shares Number", "Share Issued"} =>
            (json[i][2].tok # "NaN" /\ json[i][2].v = 0)

\* the point of a share series nearest a date, the earlier one on a tie
Nearest(series, date) ==
    LET dist(i) == IF series[i].ord >= strptime(date)
                   THEN series[i].ord - strptime(date)
                   ELSE strptime(date) - series[i].ord
    IN  series[CHOOSE i \in 1..Len(series) :
                   \A i2 \in 1..Len(series) :
                       \/ dist(i) < dist(i2)
                       \/ dist(i) = dist(i2) /\ series[i].ord <= series[i2].ord]

\* C6: a row whose statement gives no share count, for a ticker that has a
\* historical share series, carries the count of the series' point nearest its
\* announce date, not the current snapshot.
C6_HistoricalTierBeforeSnapshot ==
    \A i \in 1..Len(table) :
        LET w == WorldList[world[TickerIndex(table[i].ticker)]]
        IN  (NoStatementShares(table[i].financials_json) /\ w.share_history # <<>>) =>
                table[i].shares_outstanding
                    = Nearest(w.share_history, table[i].announce_date).shares

====
